---- MODULE Spec2Model ----
(***************************************************************************)
(* The timeseries handlers of the DataHub BFF (backend/app/api/            *)
(* timeseries.py): POST /timeseries/align, POST /export and                *)
(* GET /timeseries/entities/{id}/data, one request at a time.  The state   *)
(* is the handler's locals, the outbound requests it has issued, the       *)
(* fetch tasks in flight and the response it returns.  The upstreams       *)
(* (lookup endpoint, platform, adapters) are the environment: their        *)
(* answers are drawn from small sets.                                      *)
(***************************************************************************)
EXTENDS Integers, Sequences, FiniteSets, TLC

VARIABLES
  endpoint,  \* which handler serves the request: "align", "export" or "data"
  platform,  \* PLATFORM_API_URL is set
  req,       \* the request as received
  pc,        \* the handler's position
  series,    \* the normalized descriptors
  resolved,  \* resolved_series / resolved_series_align / resolved_series_export
  ri,        \* index of the descriptor the resolution loop is at
  lookup,    \* the resolver call just made: its input, the answer, its result
  upstream,  \* the answer to the proxied request
  outbound,  \* the outbound requests and object-storage operations so far, in order
  tasks,     \* Route B fetch tasks, in launch order
  done,      \* indices of the finished tasks, in completion order
  response   \* the handler's response

vars == <<endpoint, platform, req, pc, series, resolved, ri,
          lookup, upstream, outbound, tasks, done, response>>

\* Longest series list of a request.
MaxSeries == 3

ARROW_STREAM_TYPE == "application/vnd.apache.arrow.stream"

None == "<None>"

Range(s) == {s[i] : i \in DOMAIN s}

-----------------------------------------------------------------------------
(* Requests *)

\* Elements of the request's series array: a non-object, an object without
\* entity_id, and objects with the sources written as clients write them.
RawItems ==
  { [obj |-> FALSE, entity_id |-> "",      attribute |-> "",     source |-> ""],
    [obj |-> TRUE,  entity_id |-> "",      attribute |-> "ndvi", source |-> ""],
    [obj |-> TRUE,  entity_id |-> "p1",    attribute |-> "ndvi", source |-> ""],
    [obj |-> TRUE,  entity_id |-> "urn:a", attribute |-> "ndvi", source |-> "timescale"],
    [obj |-> TRUE,  entity_id |-> "urn:w", attribute |-> "t",    source |-> "weather"],
    [obj |-> TRUE,  entity_id |-> "c",     attribute |-> "t",    source |-> " Soil "] }

RawSeries == UNION { [1..n -> RawItems] : n \in 0..MaxSeries }

\* (start_time, end_time) as sent: in order, one missing, reversed, not ISO-8601.
TimePairs == { <<"2024-01-01T00:00:00Z", "2024-01-02T00:00:00Z">>,
               <<"",                     "2024-01-02T00:00:00Z">>,
               <<"2024-01-02T00:00:00Z", "2024-01-01T00:00:00Z">>,
               <<"2024-01-01T00:00:00Z", "yesterday">> }

Formats == {"csv", "parquet", "xml"}

BadJson == [json |-> FALSE, start_time |-> "", end_time |-> "", format |-> "",
            series |-> <<>>, entity_id |-> ""]

AlignRequests ==
  {BadJson} \cup
  { [json |-> TRUE, start_time |-> t[1], end_time |-> t[2], format |-> "",
     series |-> s, entity_id |-> ""] : t \in TimePairs, s \in RawSeries }

ExportRequests ==
  {BadJson} \cup
  { [json |-> TRUE, start_time |-> x[1][1], end_time |-> x[1][2], format |-> x[2],
     series |-> s, entity_id |-> ""] : x \in TimePairs \X Formats, s \in RawSeries }

DataRequests ==
  { [json |-> TRUE, start_time |-> "", end_time |-> "", format |-> "",
     series |-> <<>>, entity_id |-> e] : e \in {"p1", "urn:a"} }

\* datetime.fromisoformat(s.replace("Z", "+00:00")).timestamp(): the epoch
\* seconds of the timestamps of the domain, -1 where it raises.
ParseIso(s) ==
  CASE s = "2024-01-01T00:00:00Z" -> 1704067200
    [] s = "2024-01-02T00:00:00Z" -> 1704153600
    [] OTHER -> -1

\* JSON values that are no strings: a number, an array.
NonStrings == {"<5>", "<[1]>"}

\* hasattr(v, "strip")
IsStr(v) == v \notin NonStrings

\* str(v)
Str(v) ==
  CASE v = "<5>"   -> "5"
    [] v = "<[1]>" -> "[1]"
    [] OTHER       -> v

\* str.strip().lower() on the source tokens of the domain.
StripLower(s) ==
  CASE s = " Soil "  -> "soil"
    [] s = "WEATHER" -> "weather"
    [] s = "   "     -> ""
    [] OTHER         -> s

\* The source stripped and lowered, with no default for what is left empty.
NormSourceNoDefault(raw) ==
  LET s == IF raw = "" THEN "timescale" ELSE raw
  IN  IF IsStr(s) THEN StripLower(Str(s)) ELSE "timescale"

\* source = (item.get("source") or "timescale"); a string is stripped and
\* lowered, or "timescale" if nothing is left; anything else is "timescale".
NormSource(raw) ==
  LET s == IF raw = "" THEN "timescale" ELSE raw
  IN  IF IsStr(s)
      THEN (IF StripLower(Str(s)) = "" THEN "timescale" ELSE StripLower(Str(s)))
      ELSE "timescale"

Normalize(item) ==
  [entity_id |-> Str(item.entity_id), attribute |-> Str(item.attribute),
   source |-> NormSource(item.source)]

\* not isinstance(item, dict), or not eid or not attr
BadItem(item) == ~item.obj \/ item.entity_id = "" \/ item.attribute = ""

\* sources == {"timescale"} and len(sources) == 1
SingleTimescale(ss) == {ss[i].source : i \in DOMAIN ss} = {"timescale"}

\* eid.lower().startswith("urn:")
IsUrn(eid) == eid \in {"urn:a", "urn:w"}

-----------------------------------------------------------------------------
(* Responses *)

NoResponse == [status |-> 0, ctype |-> "", body |-> "", src |-> "", frame |-> <<>>]

\* JSONResponse(content={"error": msg}, status_code=st)
JsonError(st, msg, src) ==
  [status |-> st, ctype |-> "application/json", body |-> msg, src |-> src, frame |-> <<>>]

\* An exception that leaves the handler: the framework answers 500.
Unhandled(exc) ==
  [status |-> 500, ctype |-> "unhandled", body |-> exc, src |-> "", frame |-> <<>>]

-----------------------------------------------------------------------------
(* The upstreams' answers *)

NoAnswer == [kind |-> "none", status |-> 0, ctype |-> "", body |-> ""]

Timeout == [kind |-> "timeout", status |-> 0, ctype |-> "", body |-> ""]

Answer(st, ct, b) == [kind |-> "response", status |-> st, ctype |-> ct, body |-> b]

\* Answers of GET /api/entities/{id}/timeseries-location: the id found, a 200
\* without timeseries_entity_id, no location (204, 404), errors, a timeout.
LookupAnswers ==
  { Answer(200, "application/json", "muni-042"),
    Answer(200, "application/json", ""),
    Answer(204, "", ""),
    Answer(404, "application/json", ""),
    Answer(500, "text/plain", ""),
    Timeout }

\* Answers of the platform to a proxied request.
UpstreamAnswers ==
  { Answer(200, ARROW_STREAM_TYPE, "ARROW1"),
    Answer(206, ARROW_STREAM_TYPE, "ARROW1"),
    Answer(200, "text/csv", "timestamp,value_0"),
    Answer(200, "application/json", "{ \"download_url\": \"u\" }"),
    Answer(200, "application/octet-stream", "PAR1"),
    Answer(404, "application/json", "{\"error\":\"not found\"}"),
    Answer(500, "text/plain", "Internal Server Error"),
    Answer(502, "text/plain", ""),
    Timeout }

\* r.json() succeeds
IsJson(b) == b \in { "{ \"download_url\": \"u\" }", "{\"download_url\":\"u\"}",
                     "{\"error\":\"not found\"}" }

\* JSONResponse(content=r.json()): the body parsed and rendered again, with
\* the renderer's separators.
JsonRender(b) ==
  CASE b = "{ \"download_url\": \"u\" }" -> "{\"download_url\":\"u\"}"
    [] OTHER -> b

\* What a fetch task ends with: a buffer with rows, a zero-row buffer, a
\* non-2xx status, a timeout.
FetchOutcomes == {"rows", "empty", "error", "timeout"}

Failed(out) == out \in {"error", "timeout"}

\* _auth_headers(authorization, x_tenant_id) of a request that carries both.
auth_headers == {"Authorization", "X-Tenant-ID"}

Outbound(kind, to, ids, hdrs) == [kind |-> kind, to |-> to, ids |-> ids, hdrs |-> hdrs]

\* i is the place of the descriptor the resolver was called for.
NoLookup == [eid |-> "", r |-> NoAnswer, rid |-> "", i |-> 0]

\* The value _resolve_timeseries_entity_id returns for the lookup's answer
\* (a timeout raises instead, see Raises).
resolve_timeseries_entity_id(eid, r) ==
  IF ~IsUrn(eid) THEN eid
  ELSE IF r.status = 200 THEN (IF r.body # "" THEN r.body ELSE eid)
  ELSE None

\* client.get raises out of the resolver
Raises(eid, r) == IsUrn(eid) /\ r.kind = "timeout"

\* The answers a resolver call can meet: none is asked for a non-URN.
LookupFor(eid) == IF IsUrn(eid) THEN LookupAnswers ELSE {NoAnswer}

LookupLog(eid) ==
  IF IsUrn(eid)
  THEN Append(outbound, Outbound("lookup", "platform", <<eid>>, auth_headers))
  ELSE outbound

Init ==
  /\ endpoint \in {"align", "export", "data"}
  /\ platform \in BOOLEAN
  /\ req \in (CASE endpoint = "align"  -> AlignRequests
                [] endpoint = "export" -> ExportRequests
                [] OTHER               -> DataRequests)
  /\ pc = "start"
  /\ series = <<>>
  /\ resolved = <<>>
  /\ ri = 0
  /\ lookup = NoLookup
  /\ upstream = NoAnswer
  /\ outbound = <<>>
  /\ tasks = <<>>
  /\ done = <<>>
  /\ response = NoResponse

Respond(r) ==
  /\ response' = r
  /\ pc' = "done"

\* The checks of proxy_timeseries_align before routing; "" when all pass.
AlignDefect(r) ==
  IF ~r.json THEN "Invalid JSON body"
  ELSE IF r.start_time = "" \/ r.end_time = "" THEN "start_time and end_time required"
  ELSE IF Len(r.series) < 2 THEN "series must be an array of at least 2 items"
  ELSE IF \E i \in DOMAIN r.series : BadItem(r.series[i])
       THEN LET i == CHOOSE k \in DOMAIN r.series :
                       /\ BadItem(r.series[k])
                       /\ \A j \in 1..(k-1) : ~BadItem(r.series[j])
            IN  IF ~r.series[i].obj THEN "series[i] must be an object"
                ELSE "series[i] must have entity_id and attribute"
  ELSE ""

\* proxy_timeseries_align up to its first outbound request.
AlignValidate ==
  /\ pc = "start" /\ endpoint = "align"
  /\ UNCHANGED <<endpoint, platform, req, lookup, upstream, outbound, tasks, done>>
  /\ IF AlignDefect(req) # ""
     THEN /\ Respond(JsonError(400, AlignDefect(req), ""))
          /\ UNCHANGED <<series, resolved, ri>>
     ELSE LET ss == [i \in DOMAIN req.series |-> Normalize(req.series[i])]
          IN  /\ series' = ss
              /\ resolved' = ss
              /\ ri' = 1
              /\ response' = response
              /\ pc' = IF SingleTimescale(ss) /\ platform THEN "resolveA"
                       ELSE IF platform THEN "resolveB"
                       ELSE "launch"

\* The checks of proxy_export before routing; "" when all pass.
ExportDefect(r) ==
  IF ~r.json THEN "Invalid JSON body"
  ELSE IF r.format \notin {"csv", "parquet"} THEN "format must be csv or parquet"
  ELSE IF r.start_time = "" \/ r.end_time = "" THEN "start_time and end_time required"
  ELSE IF Len(r.series) = 0 THEN "series must be a non-empty array"
  ELSE IF \E i \in DOMAIN r.series : BadItem(r.series[i])
       THEN LET i == CHOOSE k \in DOMAIN r.series :
                       /\ BadItem(r.series[k])
                       /\ \A j \in 1..(k-1) : ~BadItem(r.series[j])
            IN  IF ~r.series[i].obj THEN "series[i] must be an object"
                ELSE "series[i] must have entity_id and attribute"
  ELSE ""

\* The checks of proxy_export's Route B on the times; "" when both pass.
ExportTimeDefect(r) ==
  IF ParseIso(r.start_time) < 0 \/ ParseIso(r.end_time) < 0
  THEN "Invalid start_time or end_time format"
  ELSE IF ParseIso(r.start_time) >= ParseIso(r.end_time)
  THEN "start_time must be before end_time"
  ELSE ""

\* proxy_export up to its first outbound request.
ExportValidate ==
  /\ pc = "start" /\ endpoint = "export"
  /\ UNCHANGED <<endpoint, platform, req, lookup, upstream, outbound, tasks, done>>
  /\ IF ExportDefect(req) # ""
     THEN /\ Respond(JsonError(400, ExportDefect(req), ""))
          /\ UNCHANGED <<series, resolved, ri>>
     ELSE LET ss == [i \in DOMAIN req.series |-> Normalize(req.series[i])]
          IN  IF SingleTimescale(ss) /\ platform
              THEN /\ series' = ss /\ resolved' = ss /\ ri' = 1
                   /\ response' = response
                   /\ pc' = "resolveA"
              ELSE IF ExportTimeDefect(req) # ""
              THEN /\ Respond(JsonError(400, ExportTimeDefect(req), ""))
                   /\ series' = ss
                   /\ UNCHANGED <<resolved, ri>>
              ELSE /\ series' = ss /\ resolved' = ss /\ ri' = 1
                   /\ response' = response
                   /\ pc' = IF platform THEN "resolveB" ELSE "launch"

\* Route A of align and export: one turn of the loop that resolves every
\* descriptor; a None from the resolver answers 404.
ResolveA ==
  /\ pc = "resolveA"
  /\ UNCHANGED <<endpoint, platform, req, series, upstream, tasks, done>>
  /\ LET eid == series[ri].entity_id
     IN  \E r \in LookupFor(eid) :
           /\ outbound' = LookupLog(eid)
           /\ IF Raises(eid, r)
              THEN /\ Respond(Unhandled("TimeoutException"))
                   /\ lookup' = [eid |-> eid, r |-> r, rid |-> "raised", i |-> ri]
                   /\ UNCHANGED <<resolved, ri>>
              ELSE LET rid == resolve_timeseries_entity_id(eid, r)
                   IN  /\ lookup' = [eid |-> eid, r |-> r, rid |-> rid, i |-> ri]
                       /\ IF rid = None
                          THEN /\ Respond(JsonError(404, "Entity has no timeseries location", ""))
                               /\ UNCHANGED <<resolved, ri>>
                          ELSE /\ resolved' = [resolved EXCEPT ![ri].entity_id = rid]
                               /\ ri' = ri + 1
                               /\ pc' = IF ri = Len(series) THEN "proxy" ELSE "resolveA"
                               /\ UNCHANGED response

\* Route B of align and export: one turn of the loop that resolves the
\* timescale descriptors; a None from the resolver leaves the descriptor as is.
ResolveB ==
  /\ pc = "resolveB"
  /\ UNCHANGED <<endpoint, platform, req, series, upstream, tasks, done>>
  /\ IF series[ri].source # "timescale"
     THEN /\ ri' = ri + 1
          /\ pc' = IF ri = Len(series) THEN "launch" ELSE "resolveB"
          /\ UNCHANGED <<resolved, lookup, outbound, response>>
     ELSE LET eid == series[ri].entity_id
          IN  \E r \in LookupFor(eid) :
                /\ outbound' = LookupLog(eid)
                /\ IF Raises(eid, r)
                   THEN /\ Respond(Unhandled("TimeoutException"))
                        /\ lookup' = [eid |-> eid, r |-> r, rid |-> "raised", i |-> ri]
                        /\ UNCHANGED <<resolved, ri>>
                   ELSE LET rid == resolve_timeseries_entity_id(eid, r)
                        IN  /\ lookup' = [eid |-> eid, r |-> r, rid |-> rid, i |-> ri]
                            /\ resolved' = IF rid # None
                                           THEN [resolved EXCEPT ![ri].entity_id = rid]
                                           ELSE resolved
                            /\ ri' = ri + 1
                            /\ pc' = IF ri = Len(series) THEN "launch" ELSE "resolveB"
                            /\ response' = response

-----------------------------------------------------------------------------
(* Route A: the proxied request *)

Ids(ss) == [i \in DOMAIN ss |-> ss[i].entity_id]

\* An upstream 4xx/5xx returned with its status: the upstream's JSON body, or
\* {"error": r.text or "Upstream <status>"} (held as the message).
ErrorPassthrough(r) ==
  [status |-> r.status, ctype |-> "application/json",
   body |-> IF IsJson(r.body) THEN JsonRender(r.body)
            ELSE IF r.body # "" THEN r.body ELSE "Upstream <status>",
   src |-> "", frame |-> <<>>]

\* Response(content=..., media_type=...): the status is the default, 200.
Content(ct, b) == [status |-> 200, ctype |-> ct, body |-> b, src |-> "", frame |-> <<>>]

\* proxy_timeseries_align, Route A, from the platform's answer on.
AlignProxyResponse(r) ==
  IF r.kind = "timeout" THEN Unhandled("TimeoutException")
  ELSE IF r.status >= 400 THEN ErrorPassthrough(r)
  ELSE Content(ARROW_STREAM_TYPE, r.body)

\* proxy_export, Route A, from the platform's answer on.
ExportProxyResponse(r) ==
  IF r.kind = "timeout" THEN Unhandled("TimeoutException")
  ELSE IF r.status >= 400 THEN Unhandled("HTTPStatusError")
  ELSE IF r.ctype = "text/csv" THEN Content("text/csv", r.body)
  ELSE IF IsJson(r.body) THEN Content("application/json", JsonRender(r.body))
  ELSE Unhandled("JSONDecodeError")

Proxy ==
  /\ pc = "proxy"
  /\ UNCHANGED <<endpoint, platform, req, series, resolved, ri, tasks, done>>
  /\ outbound' = Append(outbound, Outbound(endpoint, "platform", Ids(resolved), auth_headers))
  /\ lookup' = NoLookup
  /\ \E r \in UpstreamAnswers :
       /\ upstream' = r
       /\ Respond(IF endpoint = "align" THEN AlignProxyResponse(r)
                  ELSE ExportProxyResponse(r))

-----------------------------------------------------------------------------
(* GET /timeseries/entities/{id}/data *)

\* proxy_timeseries_data up to the resolver's return.
DataStart ==
  /\ pc = "start" /\ endpoint = "data"
  /\ UNCHANGED <<endpoint, platform, req, series, ri, upstream, tasks, done>>
  /\ IF ~platform
     THEN /\ Respond(JsonError(503, "PLATFORM_API_URL not configured", ""))
          /\ UNCHANGED <<resolved, lookup, outbound>>
     ELSE LET eid == req.entity_id
          IN  \E r \in LookupFor(eid) :
                /\ outbound' = LookupLog(eid)
                /\ IF Raises(eid, r)
                   THEN /\ Respond(Unhandled("TimeoutException"))
                        /\ lookup' = [eid |-> eid, r |-> r, rid |-> "raised", i |-> 1]
                        /\ UNCHANGED resolved
                   ELSE LET rid == resolve_timeseries_entity_id(eid, r)
                        IN  /\ lookup' = [eid |-> eid, r |-> r, rid |-> rid, i |-> 1]
                            /\ IF rid = None
                               THEN /\ Respond([status |-> 204, ctype |-> "", body |-> "",
                                                src |-> "", frame |-> <<>>])
                                         /\ UNCHANGED resolved
                               ELSE /\ resolved' = <<[entity_id |-> rid, attribute |-> "",
                                                      source |-> "timescale"]>>
                                    /\ pc' = "dataproxy"
                                    /\ UNCHANGED response

\* proxy_timeseries_data from the platform's answer on.
DataProxyResponse(r) ==
  IF r.kind = "timeout" THEN Unhandled("TimeoutException")
  ELSE IF r.status >= 400 THEN ErrorPassthrough(r)
  ELSE Content(r.ctype, r.body)

DataProxy ==
  /\ pc = "dataproxy"
  /\ UNCHANGED <<endpoint, platform, req, series, resolved, ri, tasks, done>>
  /\ outbound' = Append(outbound, Outbound("data", "platform", Ids(resolved), auth_headers))
  /\ lookup' = NoLookup
  /\ \E r \in UpstreamAnswers :
       /\ upstream' = r
       /\ Respond(DataProxyResponse(r))

-----------------------------------------------------------------------------
(* Route B: scatter-gather *)

Indices(ss) == [i \in DOMAIN ss |-> i]

\* sources_map: the sources in the order of their first descriptor ...
SourceOrder(ss) ==
  SelectSeq(Indices(ss), LAMBDA i : \A j \in 1..(i-1) : ss[j].source # ss[i].source)

\* ... and, per source, the indices of its descriptors in request order.
Group(ss, src) == SelectSeq(Indices(ss), LAMBDA i : ss[i].source = src)

Task(src, group) == [source |-> src, group |-> group, out |-> "pending"]

\* One task per descriptor, whatever the sources.
AlignTasksPerDescriptor(ss) == [i \in DOMAIN ss |-> Task(ss[i].source, <<i>>)]

\* align: one task per source group (tasks, task_sources)
AlignTasks(ss) ==
  LET first == SourceOrder(ss)
  IN  [k \in DOMAIN first |-> Task(ss[first[k]].source, Group(ss, ss[first[k]].source))]

\* export: one fetch_one_export per descriptor
ExportTasks(ss) == [i \in DOMAIN ss |-> Task(ss[i].source, <<i>>)]

\* _get_adapter_base_url / PLATFORM_API_URL: the fetch has a base URL
HasBase(task) == task.source # "timescale" \/ platform

\* The ids of the group as the client sent them.
TaskIdsAsSent(task) == [k \in DOMAIN task.group |-> series[task.group[k]].entity_id]

\* The ids of the group's descriptors, from resolved_series_align.
TaskIds(task) == [k \in DOMAIN task.group |-> resolved[task.group[k]].entity_id]

\* The request _fetch_from_timescale issues: GET data for one series, POST
\* align for more.
fetch_from_timescale(task) ==
  Outbound(IF Len(task.group) = 1 THEN "data" ELSE "align", "platform",
           TaskIds(task), auth_headers)

\* The request _fetch_from_external_module issues; of the request's headers
\* it carries Authorization.
fetch_from_external_module(task) ==
  Outbound("export-arrow", task.source, TaskIds(task), {"Authorization"})

\* The request of a fetch task of align.
AlignFetch(task) ==
  IF task.source = "timescale" THEN fetch_from_timescale(task)
  ELSE fetch_from_external_module(task)

\* The request fetch_one_export issues: _fetch_entity_data_raw on the base.
fetch_one_export(task) ==
  Outbound("data", IF task.source = "timescale" THEN "platform" ELSE task.source,
           <<resolved[task.group[1]].entity_id>>, auth_headers)

RECURSIVE Requests(_, _)
Requests(ts, k) ==
  IF k > Len(ts) THEN <<>>
  ELSE (IF HasBase(ts[k])
        THEN <<IF endpoint = "align" THEN AlignFetch(ts[k]) ELSE fetch_one_export(ts[k])>>
        ELSE <<>>) \o Requests(ts, k + 1)

\* The tasks are created and each runs up to its request.
Launch ==
  /\ pc = "launch"
  /\ UNCHANGED <<endpoint, platform, req, series, resolved, ri, upstream,
                 done, response>>
  /\ LET ts == IF endpoint = "align" THEN AlignTasks(resolved) ELSE ExportTasks(resolved)
     IN  /\ tasks' = ts
         /\ outbound' = outbound \o Requests(ts, 1)
  /\ lookup' = NoLookup
  /\ pc' = "gather"

\* A fetch ends; without a base URL it raises ValueError.  In export the
\* first exception ends gather's wait: the handler goes on from there, and
\* what the other fetches do afterwards reaches nothing.
TaskComplete ==
  /\ pc = "gather"
  /\ endpoint = "export" => \A t \in DOMAIN tasks : ~Failed(tasks[t].out)
  /\ \E t \in DOMAIN tasks :
       /\ tasks[t].out = "pending"
       /\ \E o \in (IF HasBase(tasks[t]) THEN FetchOutcomes ELSE {"error"}) :
            tasks' = [tasks EXCEPT ![t].out = o]
       /\ done' = Append(done, t)
  /\ UNCHANGED <<endpoint, platform, req, pc, series, resolved, ri,
                 lookup, upstream, outbound, response>>

\* Results handed over in the order the fetches finished.
GatherOrderAsCompleted(ts, completed) == completed

\* asyncio.gather: the results are in the order of the awaitables given.
GatherOrder(ts, completed) == [i \in DOMAIN ts |-> i]

\* The error names the source of the last task.
ErrorSourceLast(ts, i) == ts[Len(ts)].source

\* zip(task_sources, results): the source beside the i-th result.
ErrorSource(ts, i) == ts[i].source

\* The Arrow buffer a successful fetch returns: one value column per
\* descriptor of the task (named by the descriptor's index), with or without rows.
Buffer(task) == [rows |-> IF task.out = "rows" THEN 1 ELSE 0, cols |-> task.group]

RECURSIVE Flatten(_)
Flatten(bufs) == IF bufs = <<>> THEN <<>> ELSE Head(bufs).cols \o Flatten(Tail(bufs))

\* _gather_arrow_to_aligned_df: zero-row buffers are skipped, the value
\* columns of the others become value_0, value_1, ... in buffer order; the
\* k-th element is the descriptor whose data value_{k-1} holds.  <<>> stands
\* for ValueError("No non-empty DataFrames after parsing").
gather_arrow_to_aligned_df(bufs) == Flatten(SelectSeq(bufs, LAMBDA b : b.rows > 0))

Frame(ct, f) == [status |-> 200, ctype |-> ct, body |-> "", src |-> "", frame |-> f]

\* proxy_timeseries_align after gather(*tasks, return_exceptions=True).
AlignGather ==
  /\ pc = "gather" /\ endpoint = "align"
  /\ \A t \in DOMAIN tasks : tasks[t].out # "pending"
  /\ UNCHANGED <<endpoint, platform, req, series, resolved, ri, lookup,
                 upstream, outbound, tasks, done>>
  /\ LET order == GatherOrder(tasks, done)
         results == [i \in DOMAIN tasks |-> tasks[order[i]]]
         bad == {i \in DOMAIN results : Failed(results[i].out)}
     IN  IF bad # {}
         THEN LET i == CHOOSE k \in bad : \A j \in bad : k <= j
              IN  Respond(JsonError(502, "Error obteniendo datos de", ErrorSource(tasks, i)))
         ELSE LET df == gather_arrow_to_aligned_df([i \in DOMAIN results |-> Buffer(results[i])])
              IN  IF df = <<>>
                  THEN Respond(JsonError(502, "No non-empty DataFrames after parsing", ""))
                  ELSE Respond(Frame(ARROW_STREAM_TYPE, df))

\* results.sort(key=lambda x: x[0])
SortByIdx(results) ==
  [i \in DOMAIN results |-> results[CHOOSE k \in DOMAIN results : results[k][1] = i]]

\* The column that holds nothing but nulls.
Null == 0

\* _align_multi_source_to_df_sync: value_idx is null for a zero-row buffer,
\* else the buffer's value column joined onto the grid.
align_multi_source_to_df_sync(bufs) ==
  [i \in DOMAIN bufs |-> IF bufs[i].rows = 0 THEN Null ELSE bufs[i].cols[1]]

\* os.getenv("S3_ACCESS_KEY"), os.getenv("S3_SECRET_KEY"): unset or set.
S3Env == {None, "minio"}

\* client.upload_fileobj goes through or raises.
UploadOutcomes == {"ok", "error"}

\* The object-storage client is made before the keys are looked at.
ParquetClientFirst(access, secret, up) ==
  IF access = None \/ secret = None
  THEN [ops |-> <<"client">>, raised |-> "ValueError"]
  ELSE IF up = "error"
  THEN [ops |-> <<"client", "upload_fileobj">>, raised |-> "ClientError"]
  ELSE [ops |-> <<"client", "upload_fileobj", "generate_presigned_url">>, raised |-> ""]

\* _dataframe_to_parquet_minio_sync: the object-storage operations it does,
\* in order, and the exception it ends with ("" when it returns the URL).
dataframe_to_parquet_minio_sync(access, secret, up) ==
  IF access = None \/ secret = None
  THEN [ops |-> <<>>, raised |-> "ValueError"]
  ELSE IF up = "error"
  THEN [ops |-> <<"client", "upload_fileobj">>, raised |-> "ClientError"]
  ELSE [ops |-> <<"client", "upload_fileobj", "generate_presigned_url">>, raised |-> ""]

\* What the parquet branch leaves in the log: the keys read, then the
\* object-storage operations.
S3Log(access, secret, p) ==
  <<Outbound("getenv", "s3", <<access, secret>>, {})>>
    \o [k \in DOMAIN p.ops |-> Outbound(p.ops[k], "s3", <<>>, {})]

\* proxy_export's parquet branch, from the upload's end on.
ParquetResponse(p, df) ==
  IF p.raised = "ValueError"
  THEN JsonError(503, "S3_ACCESS_KEY and S3_SECRET_KEY required for Parquet export", "")
  ELSE IF p.raised # "" THEN Unhandled(p.raised)
  ELSE Frame("application/json", df)

\* proxy_export after gather(*coros): the first exception ends the wait.
ExportGather ==
  /\ pc = "gather" /\ endpoint = "export"
  /\ \/ \A t \in DOMAIN tasks : tasks[t].out # "pending"
     \/ \E t \in DOMAIN tasks : Failed(tasks[t].out)
  /\ UNCHANGED <<endpoint, platform, req, series, resolved, ri, lookup,
                 upstream, tasks, done>>
  /\ IF \E t \in DOMAIN tasks : Failed(tasks[t].out)
     THEN /\ Respond(JsonError(502, "Adapter fetch failed", ""))
          /\ UNCHANGED outbound
     ELSE LET order == GatherOrder(tasks, done)
              results == [i \in DOMAIN tasks |-> <<order[i], Buffer(tasks[order[i]])>>]
              sorted == SortByIdx(results)
              df == align_multi_source_to_df_sync([i \in DOMAIN sorted |-> sorted[i][2]])
          IN  IF req.format = "csv"
              THEN /\ Respond(Frame("text/csv", df))
                   /\ UNCHANGED outbound
              ELSE \E access \in S3Env, secret \in S3Env, up \in UploadOutcomes :
                     LET p == dataframe_to_parquet_minio_sync(access, secret, up)
                     IN  /\ outbound' = outbound \o S3Log(access, secret, p)
                         /\ Respond(ParquetResponse(p, df))

Next ==
  \/ AlignValidate
  \/ ExportValidate
  \/ ResolveA
  \/ ResolveB
  \/ Proxy
  \/ DataStart
  \/ DataProxy
  \/ Launch
  \/ TaskComplete
  \/ AlignGather
  \/ ExportGather

Spec == Init /\ [][Next]_vars

-----------------------------------------------------------------------------
(* Properties *)

Answered == pc = "done"

\* The request went down Route B and its fetches were launched.
Gathered == Answered /\ tasks # <<>>

\* C1: a successful Route B response (align or export) of a request with n
\* descriptors carries exactly n value columns, and value_{i-1} holds the
\* data of the i-th descriptor (or nothing but nulls).
C1_ValueColumnsInRequestOrder ==
  (Gathered /\ response.status = 200) =>
    /\ Len(response.frame) = Len(series)
    /\ \A i \in DOMAIN series : response.frame[i] \in {i, Null}

\* C2: in align Route B, once the fetch of a source group has failed no Arrow
\* body is answered, and the answer is 502 with a JSON error that names a
\* source whose fetch failed.
C2_AlignFailureIs502 ==
  (endpoint = "align" /\ \E t \in DOMAIN tasks : Failed(tasks[t].out)) =>
    /\ response.ctype # ARROW_STREAM_TYPE
    /\ response.frame = <<>>
    /\ Answered =>
         /\ response.status = 502
         /\ response.ctype = "application/json"
         /\ \E t \in DOMAIN tasks : Failed(tasks[t].out) /\ tasks[t].source = response.src

\* C2 witness: three groups, the first fetch delivers rows, the second times
\* out after the third has failed, and the answer names the second.
C2_Witness ==
  /\ endpoint = "align" /\ Answered
  /\ Len(tasks) = 3
  /\ tasks[1].out = "rows" /\ tasks[2].out = "timeout" /\ tasks[3].out = "error"
  /\ done = <<3, 1, 2>>
  /\ response.status = 502 /\ response.src = tasks[2].source

\* The first descriptor of the source of descriptor i.
FirstOfSource(i) ==
  CHOOSE k \in DOMAIN series :
    /\ series[k].source = series[i].source
    /\ \A j \in 1..(k-1) : series[j].source # series[i].source

\* The fetch of descriptor i delivered rows.
HasRows(i) ==
  \E t \in DOMAIN tasks : tasks[t].out = "rows" /\ i \in Range(tasks[t].group)

\* C3: when all fetches of a Route B request succeed, the columns of the
\* answer are fixed by the request and the buffers alone, whatever the order
\* the fetches finished in.  Align: the descriptors whose source delivered
\* rows, each once, ordered by the first descriptor of their source and then
\* by their own place.  Export: column i holds descriptor i's data, or nulls
\* when its buffer has no rows.
C3_OutputIndependentOfCompletionOrder ==
  (Gathered /\ response.status = 200) =>
    LET f == response.frame
    IN  IF endpoint = "align"
        THEN /\ Range(f) = {i \in DOMAIN series : HasRows(i)}
             /\ \A k, l \in DOMAIN f :
                  k < l => \/ FirstOfSource(f[k]) < FirstOfSource(f[l])
                           \/ /\ FirstOfSource(f[k]) = FirstOfSource(f[l])
                              /\ f[k] < f[l]
        ELSE /\ DOMAIN f = DOMAIN series
             /\ \A i \in DOMAIN f : f[i] = IF HasRows(i) THEN i ELSE Null

\* C3 witness: a successful answer whose fetches finished in another order
\* than they were launched in.
C3_Witness ==
  /\ Gathered /\ response.status = 200
  /\ Len(done) = 3
  /\ done[1] > done[2] /\ done[2] > done[3]
  /\ \A t \in DOMAIN tasks : tasks[t].out = "rows"
\* The validation defects of a request: malformed JSON, a time missing, not
\* ISO-8601 or not in order, a format other than csv and parquet, a series
\* list shorter than the endpoint's minimum, a bad series element.
HasDefect ==
  \/ ~req.json
  \/ req.start_time = "" \/ req.end_time = ""
  \/ ParseIso(req.start_time) < 0 \/ ParseIso(req.end_time) < 0
  \/ ParseIso(req.start_time) >= ParseIso(req.end_time)
  \/ endpoint = "export" /\ req.format \notin {"csv", "parquet"}
  \/ Len(req.series) < (IF endpoint = "align" THEN 2 ELSE 1)
  \/ \E i \in DOMAIN req.series : BadItem(req.series[i])

\* C4: an align or export request with a validation defect is answered 400
\* with a JSON error, and no outbound request is issued for it.
C4_ValidationBeforeIO ==
  (endpoint \in {"align", "export"} /\ HasDefect) =>
    /\ outbound = <<>>
    /\ Answered => response.status = 400 /\ response.ctype = "application/json"

\* The handler is on Route A / on Route B.
OnRouteA == pc \in {"resolveA", "proxy"} \/ (Answered /\ upstream # NoAnswer)
OnRouteB == pc \in {"resolveB", "launch", "gather"} \/ Gathered

\* C5: align and export take Route A exactly when every normalized source is
\* timescale and the platform base is set; on Route A with no URN among the
\* ids the only outbound request is the proxied POST, and a success body of
\* the platform is returned as it came.
C5_RouteAProxiesVerbatim ==
  endpoint \in {"align", "export"} =>
    /\ OnRouteA => SingleTimescale(series) /\ platform
    /\ OnRouteB => ~(SingleTimescale(series) /\ platform)
    /\ (Answered /\ upstream # NoAnswer /\ \A i \in DOMAIN series : ~IsUrn(series[i].entity_id)) =>
         /\ Len(outbound) = 1
         /\ outbound[1].kind = endpoint /\ outbound[1].to = "platform"
         /\ (upstream.kind = "response" /\ upstream.status \in 200..299) =>
              /\ response.status = 200
              /\ response.body = upstream.body

IsFetch(o) == o.kind \in {"data", "align", "export", "export-arrow"}

\* C6: when the resolver returns None for a timescale descriptor on Route B,
\* export answers 404 at once and fetches no data, while align goes on with
\* the descriptor's URN and does not answer 404.
C6_UnresolvedIs404OnExportOnly ==
  /\ (endpoint = "export" /\ OnRouteB /\ lookup.rid = None) =>
       /\ Answered /\ response.status = 404
       /\ \A k \in DOMAIN outbound : ~IsFetch(outbound[k])
  /\ (endpoint = "align" /\ OnRouteB /\ lookup.rid = None) =>
       /\ response.status # 404
       /\ \A i \in DOMAIN resolved : resolved[i].entity_id = series[i].entity_id
                                     \/ resolved[i].entity_id = "muni-042"

\* C7: the resolver returns None only for a lookup answered 204 or 404; on
\* any other failure of the lookup it returns the URN it was given and does
\* not raise.
C7_NoneOnlyOn204Or404 ==
  /\ lookup.rid = None => lookup.r.status \in {204, 404}
  /\ (IsUrn(lookup.eid) /\ (lookup.r.kind = "timeout" \/ lookup.r.status \notin {200, 204, 404})) =>
       lookup.rid = lookup.eid

\* C8: GET data answers 503 without any outbound request when the platform
\* base is not set; else 204 with an empty body and no data request when the
\* resolver returns None; else the platform's answer with its status, and
\* with its content type and body when it is not an error, as JSON when it is.
C8_DataPassThrough ==
  (endpoint = "data" /\ Answered) =>
    IF ~platform THEN response.status = 503 /\ outbound = <<>>
    ELSE IF lookup.rid = None
    THEN /\ response.status = 204 /\ response.body = ""
         /\ \A k \in DOMAIN outbound : ~IsFetch(outbound[k])
    ELSE upstream.kind = "response" =>
           /\ response.status = upstream.status
           /\ IF upstream.status >= 400
              THEN response.ctype = "application/json"
              ELSE response.ctype = upstream.ctype /\ response.body = upstream.body

\* C9: on Route A of align and export a 4xx or 5xx of the platform is
\* answered with the same status and a JSON body.
C9_RouteAKeepsErrorStatus ==
  (endpoint \in {"align", "export"} /\ Answered /\ upstream.kind = "response"
     /\ upstream.status >= 400) =>
    /\ response.status = upstream.status
    /\ response.ctype = "application/json"

\* An outbound request of this request has timed out.
TimedOut ==
  \/ lookup.r.kind = "timeout"
  \/ upstream.kind = "timeout"
  \/ \E t \in DOMAIN tasks : tasks[t].out = "timeout"

\* C10: a request one of whose outbound fetches timed out is answered 502
\* with a JSON error.
C10_TimeoutIs502 ==
  (Answered /\ TimedOut) =>
    response.status = 502 /\ response.ctype = "application/json"

\* An HTTP request among the logged operations.
IsHttp(o) == o.to # "s3"

\* C11: every outbound HTTP request of a request that carries Authorization
\* and X-Tenant-ID (the URN lookup, the platform GETs and POSTs, the POST to
\* an adapter's export-arrow) carries both headers.
C11_AuthHeadersForwarded ==
  \A k \in DOMAIN outbound :
    IsHttp(outbound[k]) => auth_headers \subseteq outbound[k].hdrs

S3Ops == {"client", "upload_fileobj", "generate_presigned_url"}

\* C16: a parquet export on Route B that finds S3_ACCESS_KEY or S3_SECRET_KEY
\* unset is answered 503 with the JSON error that names the two keys, and it
\* makes no object-storage client, uploads nothing and signs no URL.
C16_ParquetWithoutKeysIs503 ==
  (endpoint = "export" /\ req.format = "parquet") =>
    \A k \in DOMAIN outbound :
      (outbound[k].kind = "getenv" /\ None \in Range(outbound[k].ids)) =>
        /\ Answered
        /\ response = JsonError(503,
              "S3_ACCESS_KEY and S3_SECRET_KEY required for Parquet export", "")
        /\ \A j \in DOMAIN outbound : outbound[j].kind \notin S3Ops

\* C16 witness: every fetch of a parquet export delivered rows, the access
\* key is set, the secret key is not, and the answer is 503.
C16_Witness ==
  /\ endpoint = "export" /\ Answered /\ req.format = "parquet"
  /\ Len(tasks) = 2 /\ \A t \in DOMAIN tasks : tasks[t].out = "rows"
  /\ outbound[Len(outbound)].kind = "getenv"
  /\ outbound[Len(outbound)].ids = <<"minio", None>>
  /\ response.status = 503

\* Of the requests issued so far: a URN lookup is for the entity_id of a
\* timescale descriptor; the id the resolver has just returned stands in the
\* resolved descriptor; every id of a platform data request is the resolved
\* id of a timescale descriptor whose URN, if it has one, was looked up
\* earlier.
ResolvedBeforeFetch ==
  /\ \A k \in DOMAIN outbound :
       outbound[k].kind = "lookup" =>
         \E i \in DOMAIN series : /\ series[i].source = "timescale"
                                  /\ outbound[k].ids = <<series[i].entity_id>>
  /\ (lookup.i \in DOMAIN resolved /\ lookup.rid \notin {None, "raised"}) =>
       resolved[lookup.i].entity_id = lookup.rid
  /\ \A k \in DOMAIN outbound :
       (IsFetch(outbound[k]) /\ outbound[k].to = "platform") =>
         \A p \in DOMAIN outbound[k].ids :
           \E i \in DOMAIN series :
             /\ series[i].source = "timescale"
             /\ outbound[k].ids[p] = resolved[i].entity_id
             /\ IsUrn(series[i].entity_id) =>
                  \E j \in 1..(k-1) : /\ outbound[j].kind = "lookup"
                                      /\ outbound[j].ids = <<series[i].entity_id>>

\* C19: in align and export each URN of a timescale descriptor is looked up
\* before any platform data request that carries the descriptor is issued,
\* the request carries the id the resolver returned in the URN's place, and
\* no URN lookup is issued for a descriptor of another source.  The handler
\* has issued its last request before its first fetch finishes, so the
\* states up to there show every request it issues.
C19_ResolvedBeforeFetch ==
  (endpoint \in {"align", "export"} /\ done = <<>>) => ResolvedBeforeFetch

\* C19 witness: an align request for a timescale URN and a weather URN; the
\* lookup of the first comes first, the platform is asked for the id the
\* lookup returned, and the adapter is asked for its URN as it was sent.
C19_Witness ==
  /\ endpoint = "align" /\ Answered /\ Len(outbound) = 3
  /\ outbound[1].kind = "lookup" /\ outbound[1].ids = <<"urn:a">>
  /\ outbound[2].to = "platform" /\ outbound[2].ids = <<"muni-042">>
  /\ outbound[3].to = "weather" /\ outbound[3].ids = <<"urn:w">>

\* proxy_timeseries_align alone: the requests to the align endpoint and the
\* steps of its handler.
InitAlignHandler == Init /\ endpoint = "align"

NextAlignHandler ==
  \/ AlignValidate
  \/ ResolveA
  \/ ResolveB
  \/ Proxy
  \/ Launch
  \/ TaskComplete
  \/ AlignGather

SpecAlignHandler == InitAlignHandler /\ [][NextAlignHandler]_vars

\* The data fetches issued so far, in order.
Fetches == SelectSeq(outbound, IsFetch)

\* The request the fetch of a source group is to make: to the platform, GET
\* data for a group of one and POST align for a larger one; to the source's
\* adapter, POST export-arrow; with one id per descriptor of the group.
FetchOfGroup(task, o) ==
  /\ o.kind = (IF task.source # "timescale" THEN "export-arrow"
               ELSE IF Len(task.group) = 1 THEN "data" ELSE "align")
  /\ o.to = (IF task.source = "timescale" THEN "platform" ELSE task.source)
  /\ o.ids = [k \in DOMAIN task.group |-> resolved[task.group[k]].entity_id]

\* The tasks are the source groups: no source has two tasks, every
\* descriptor is in the group of the task of its source and in no other,
\* and the fetches issued are those of the tasks that have a base URL, one
\* each, in task order (a task without a base URL fails before its request).
OneFetchPerSource ==
  /\ \A k, l \in DOMAIN tasks : tasks[k].source = tasks[l].source => k = l
  /\ \A i \in DOMAIN resolved : \A k \in DOMAIN tasks :
       (i \in Range(tasks[k].group)) <=> (tasks[k].source = resolved[i].source)
  /\ \A i \in DOMAIN resolved : \E k \in DOMAIN tasks : i \in Range(tasks[k].group)
  /\ LET based == SelectSeq(tasks, HasBase)
     IN  /\ Len(Fetches) = Len(based)
         /\ \A k \in DOMAIN based : FetchOfGroup(based[k], Fetches[k])

-----------------------------------------------------------------------------
(* The resolution of a request: from the client's value to the values sent *)

\* The variables the specifications of single functions leave alone.
Idle ==
  /\ platform = TRUE /\ series = <<>> /\ resolved = <<>> /\ ri = 0
  /\ lookup = NoLookup /\ upstream = NoAnswer /\ tasks = <<>> /\ done = <<>>

IdleVars == <<platform, series, resolved, ri, lookup, upstream, tasks, done>>

Min(a, b) == IF a < b THEN a ELSE b
Max(a, b) == IF a > b THEN a ELSE b

\* The resolution goes out as the handler holds it.
Unclamped(res) == res

\* min(max(resolution, 100), 10000)
UpstreamClamp(res) == Min(Max(res, 100), 10000)

\* resolution = max(2, min(resolution, 10000))
GridClamp(res) == Max(2, Min(res, 10000))

\* int(body.get("resolution", 1000))
BodyResolution(r) == IF r.has THEN r.resolution ELSE 1000

\* resolution as clients send it, around the edges of the two ranges.
ClientResolutions == {-1, 0, 1, 2, 99, 100, 101, 1000, 9999, 10000, 10001, 2000000}

Aggregations == {"", "raw", " RAW ", "1 day", "1 hour", "5 minutes"}

\* end_ts - start_ts in whole seconds: a second, an hour, 100 and 10000
\* minutes, hours and days and the second before and the unit after.
Deltas == {1, 3600, 599999, 600000, 600060, 359999, 360000, 36000000, 36003600,
           8639999, 8640000, 864000000, 864086400}

\* (aggregation or "1 hour").strip().lower()
AggNorm(a) ==
  CASE a = ""      -> "1 hour"
    [] a = " RAW " -> "raw"
    [] OTHER       -> a

\* _resolution_from_aggregation(start_ts, end_ts, aggregation), delta being
\* end_ts - start_ts; int() of a positive quotient is its floor.
resolution_from_aggregation(delta, aggregation) ==
  IF delta <= 0 THEN 1000
  ELSE LET agg == AggNorm(aggregation)
       IN  IF agg = "raw" THEN Min(10000, Max(1000, delta \div 60))
           ELSE IF agg = "1 day" THEN Min(10000, Max(100, delta \div 86400))
           ELSE Min(10000, Max(100, delta \div 3600))

\* Route B of align: resolution = min(max(resolution, 100), 10000)
AlignRouteBResolution(res) == UpstreamClamp(res)

\* A value of resolution that leaves the handler: in a request to an
\* upstream, or (kind "grid") into the grid's construction.
Sent(kind, to, res) == [kind |-> kind, to |-> to, resolution |-> res]

\* route: A or B; group: the size of the timescale group of Route B.
ResolutionRequests(e) ==
  CASE e = "align" ->
         [has : BOOLEAN, resolution : ClientResolutions, route : {"A", "B"},
          group : {1, 2}, aggregation : {""}, delta : {86400}]
    [] e = "export" ->
         [has : {FALSE}, resolution : {1000}, route : {"A", "B"},
          group : {1}, aggregation : Aggregations, delta : Deltas]
    [] OTHER ->
         [has : BOOLEAN, resolution : ClientResolutions, route : {"A"},
          group : {1}, aggregation : {""}, delta : {86400}]

InitResolution ==
  /\ endpoint \in {"align", "export", "data"}
  /\ req \in ResolutionRequests(endpoint)
  /\ pc = "start"
  /\ outbound = <<>>
  /\ response = NoResponse
  /\ Idle

\* proxy_timeseries_align: the proxied POST of Route A; on Route B the
\* timescale group's GET (one series) or POST (more) and an adapter's POST.
AlignResolution ==
  /\ pc = "start" /\ endpoint = "align"
  /\ LET res == BodyResolution(req)
         resB == AlignRouteBResolution(res)
     IN  outbound' =
           IF req.route = "A"
           THEN <<Sent("align", "platform", UpstreamClamp(res))>>
           ELSE <<IF req.group = 1
                  THEN Sent("data", "platform", resB)
                  ELSE Sent("align", "platform", UpstreamClamp(resB)),
                  Sent("export-arrow", "weather", resB)>>
  /\ pc' = "done"
  /\ UNCHANGED <<endpoint, req, response>>
  /\ UNCHANGED IdleVars

\* proxy_export: Route A sends the aggregation on and no resolution; Route B
\* sends each descriptor's GET and builds the grid.
ExportResolution ==
  /\ pc = "start" /\ endpoint = "export"
  /\ LET res == resolution_from_aggregation(req.delta, req.aggregation)
     IN  outbound' =
           IF req.route = "A" THEN <<>>
           ELSE <<Sent("data", "platform", res), Sent("grid", "", GridClamp(res))>>
  /\ pc' = "done"
  /\ UNCHANGED <<endpoint, req, response>>
  /\ UNCHANGED IdleVars

\* proxy_timeseries_data: params = dict(request.query_params)
DataResolution ==
  /\ pc = "start" /\ endpoint = "data"
  /\ outbound' = IF req.has THEN <<Sent("data", "platform", req.resolution)>>
                 ELSE <<>>
  /\ pc' = "done"
  /\ UNCHANGED <<endpoint, req, response>>
  /\ UNCHANGED IdleVars

NextResolution ==
  \/ AlignResolution
  \/ ExportResolution
  \/ DataResolution

SpecResolution == InitResolution /\ [][NextResolution]_vars

InRange(o) ==
  IF o.kind = "grid" THEN o.resolution \in 2..10000
  ELSE o.resolution \in 100..10000

\* C15: every resolution sent to an upstream lies in [100, 10000] and every
\* resolution a grid is built with lies in [2, 10000], whatever the client's
\* resolution, the aggregation and the time range.
C15_ResolutionsInRange ==
  \A k \in DOMAIN outbound : InRange(outbound[k])

\* C15, amended: the same of the requests of align and export; GET data
\* sends the client's query parameters on as they are.
C15_AlignExportResolutionsInRange ==
  /\ endpoint \in {"align", "export"} => \A k \in DOMAIN outbound : InRange(outbound[k])
  /\ (endpoint = "data" /\ pc = "done" /\ req.has) =>
       outbound = <<Sent("data", "platform", req.resolution)>>

\* C15 witness: Route B of align, asked for one point, has sent 100 in the
\* GET for its one timescale series and in the adapter's POST.
C15_Witness ==
  /\ endpoint = "align" /\ pc = "done"
  /\ req.has /\ req.resolution = 1 /\ req.route = "B" /\ req.group = 1
  /\ Len(outbound) = 2
  /\ outbound[1].resolution = 100 /\ outbound[2].resolution = 100

-----------------------------------------------------------------------------
(* Normalization of the series list *)

\* Series elements that pass validation, with entity_id, attribute and source
\* as clients may send them: padded, in capitals, empty, absent ("") or not
\* a string.
NormItems ==
  [obj : {TRUE}, entity_id : {"p1", " p1 ", "<5>"}, attribute : {"ndvi", "<5>"},
   source : {"", "   ", "timescale", "weather", " Soil ", "WEATHER", "<5>", "<[1]>"}]

\* A normalized descriptor sent in as an element of a series list.
AsItem(d) ==
  [obj |-> TRUE, entity_id |-> d.entity_id, attribute |-> d.attribute,
   source |-> d.source]

InitNormalize ==
  /\ endpoint \in {"align", "export"}
  /\ \E a \in NormItems, b \in NormItems :
       req = [json |-> TRUE, start_time |-> "2024-01-01T00:00:00Z",
              end_time |-> "2024-01-02T00:00:00Z", format |-> "csv",
              series |-> <<a, b>>, entity_id |-> ""]
  /\ pc = "start"
  /\ outbound = <<>>
  /\ response = NoResponse
  /\ Idle

\* The normalization loop of proxy_timeseries_align and proxy_export.
NormalizeSeries ==
  /\ pc = "start"
  /\ series' = [i \in DOMAIN req.series |-> Normalize(req.series[i])]
  /\ pc' = "normalized"
  /\ UNCHANGED <<endpoint, platform, req, resolved, ri, lookup, upstream,
                 outbound, tasks, done, response>>

\* The same loop over its own result.
NormalizeAgain ==
  /\ pc = "normalized"
  /\ resolved' = [i \in DOMAIN series |-> Normalize(AsItem(series[i]))]
  /\ pc' = "done"
  /\ UNCHANGED <<endpoint, platform, req, series, ri, lookup, upstream,
                 outbound, tasks, done, response>>

NextNormalize ==
  \/ NormalizeSeries
  \/ NormalizeAgain

SpecNormalize == InitNormalize /\ [][NextNormalize]_vars

\* The tokens of the domain with white space at an end, and with capitals.
Padded == {"   ", " Soil ", " p1 "}
Capitals == {" Soil ", "WEATHER"}

\* C17: normalizing a series list that passes validation gives every
\* descriptor a non-empty string entity_id and attribute and a non-empty
\* source without padding or capitals, "timescale" when the source was
\* absent, empty, white space only or no string; and normalizing the result
\* again changes nothing.
C17_NormalizeIdempotent ==
  /\ pc \in {"normalized", "done"} =>
       /\ DOMAIN series = DOMAIN req.series
       /\ \A i \in DOMAIN series :
            /\ series[i].entity_id # "" /\ IsStr(series[i].entity_id)
            /\ series[i].attribute # "" /\ IsStr(series[i].attribute)
            /\ series[i].source # "" /\ IsStr(series[i].source)
            /\ series[i].source \notin Padded \cup Capitals
            /\ req.series[i].source \in {"", "   "} \cup NonStrings =>
                 series[i].source = "timescale"
  /\ pc = "done" => resolved = series

\* C17 witness: a source of white space only and a padded source in capitals
\* have become timescale and soil, and the second pass gave the same list.
C17_Witness ==
  /\ pc = "done"
  /\ req.series[1].source = "   " /\ series[1].source = "timescale"
  /\ req.series[2].source = " Soil " /\ series[2].source = "soil"
  /\ req.series[1].entity_id = "<5>" /\ series[1].entity_id = "5"
  /\ resolved = series

-----------------------------------------------------------------------------
(* The time grid and the LOCF alignment of export's Route B *)

\* Binary floating point in miniature: FloatBits bits of significand and the
\* exponents 0..FloatExpMax, every value counted in units of the smallest
\* positive one.  Python's floats are the same with 53 bits.
FloatBits == 3
FloatExpMax == 6

Floats == {m * 2^e : m \in 0..(2^FloatBits - 1), e \in 0..FloatExpMax}

\* The spacing of the floats from f upwards.
Ulp(f) ==
  LET e == CHOOSE x \in 0..FloatExpMax :
             /\ f < 2^(FloatBits + x)
             /\ x = 0 \/ f >= 2^(FloatBits + x - 1)
  IN  2^e

\* The float an operation with the exact result num/den returns: the nearest
\* one, and of two equally near the one with the even significand.
Round(num, den) ==
  LET q  == num \div den
      lo == (q \div Ulp(q)) * Ulp(q)
      hi == IF lo * den = num THEN lo ELSE lo + Ulp(lo)
  IN  IF 2 * num < (lo + hi) * den THEN lo
      ELSE IF 2 * num > (lo + hi) * den THEN hi
      ELSE IF (lo \div Ulp(lo)) % 2 = 0 THEN lo ELSE hi

\* start_ts + (end_ts - start_ts) * i / (resolution - 1)
GridPoint(start_ts, end_ts, i, n) ==
  LET delta == Round(end_ts - start_ts, 1)
      prod  == Round(delta * i, 1)
      quot  == Round(prod, n - 1)
  IN  Round(start_ts + quot, 1)

\* grid_ts: resolution clamped to [2, 10000], then one point per i in
\* range(resolution).
Grid(start_ts, end_ts, resolution) ==
  LET n == GridClamp(resolution)
  IN  [k \in 1..n |-> GridPoint(start_ts, end_ts, k - 1, n)]

\* The cell without a value.
NullCell == "<null>"

Row(t, v) == [timestamp |-> t, value |-> v]

\* An Arrow body: whether it decodes, the columns of its table, its rows.
Body(ok, cols, rows) == [decodes |-> ok, columns |-> cols, rows |-> rows]

\* Longest table of a body.
MaxRows == 2

BodyRows == {Row(t, v) : t \in {0, 2, 4}, v \in {"a", "b"}}

\* Bodies that give a column of nulls: one that does not decode, a table
\* without rows, a table without value, a table without timestamp.
DefectiveBodies ==
  { Body(FALSE, {}, <<>>),
    Body(TRUE, {"timestamp", "value"}, <<>>),
    Body(TRUE, {"timestamp"}, <<Row(2, NullCell)>>),
    Body(TRUE, {"value"}, <<Row(0, "a")>>) }

ValidBodies ==
  { Body(TRUE, {"timestamp", "value"}, r) :
      r \in UNION { [1..n -> BodyRows] : n \in 1..MaxRows } }

Bodies == DefectiveBodies \cup ValidBodies

\* The bodies beside which every body is tried.
Companions ==
  DefectiveBodies \cup { Body(TRUE, {"timestamp", "value"}, <<Row(2, "b"), Row(0, "a")>>) }

BodyLists ==
  {<<>>} \cup {<<b>> : b \in Bodies}
         \cup {<<b, c>> : b \in Bodies, c \in Companions}
         \cup {<<c, b>> : b \in Bodies, c \in Companions}

\* except Exception / height == 0 / "timestamp" or "value" not in columns
Defective(body) ==
  \/ ~body.decodes
  \/ Len(body.rows) = 0
  \/ "timestamp" \notin body.columns \/ "value" \notin body.columns

\* df_series.sort("timestamp"): the rows in ascending timestamp; the sort is
\* not asked to keep the order of rows with equal timestamps.
Sorts(rows) ==
  { [k \in DOMAIN rows |-> rows[p[k]]] :
      p \in { f \in [DOMAIN rows -> DOMAIN rows] :
                /\ \A a, b \in DOMAIN rows : a # b => f[a] # f[b]
                /\ \A a, b \in DOMAIN rows :
                     a < b => rows[f[a]].timestamp <= rows[f[b]].timestamp } }

\* join_asof(strategy="backward"): per grid point the value of the last row
\* of the sorted table whose timestamp is not after it.
join_asof(grid, sorted) ==
  [k \in DOMAIN grid |->
     LET upto == {j \in DOMAIN sorted : sorted[j].timestamp <= grid[k]}
     IN  IF upto = {} THEN NullCell
         ELSE sorted[CHOOSE j \in upto : \A l \in upto : l <= j].value]

\* A defective body leaves no column.
ValueColumnDropped(body, sorted, grid) ==
  IF Defective(body) THEN <<>> ELSE join_asof(grid, sorted)

\* value_idx: nulls for a defective body, else the join onto the grid.
ValueColumn(body, sorted, grid) ==
  IF Defective(body) THEN [k \in DOMAIN grid |-> NullCell]
  ELSE join_asof(grid, sorted)

\* _align_multi_source_to_df_sync, row by row: the grid and one value column
\* per body; sorted[i] is what the sort made of body i's rows.
align_to_grid(bodies, sorted, start_ts, end_ts, resolution) ==
  LET grid == Grid(start_ts, end_ts, resolution)
  IN  [timestamp |-> grid,
       values |-> [i \in DOMAIN bodies |-> ValueColumn(bodies[i], sorted[i], grid)]]

\* The timestamps a request's times parse to: the floats whose products with
\* the grid's indices stay in range.
Timestamps == {f \in Floats : f * 7 <= (2^FloatBits - 1) * 2^FloatExpMax}

\* resolution as the function may be given it; the grid's indices and
\* resolution - 1 are floats themselves.
GridResolutions == {-1, 0, 1, 2, 3, 4, 6, 8}

AlignCall(start_ts, end_ts, resolution, bodies) ==
  [start_ts |-> start_ts, end_ts |-> end_ts, resolution |-> resolution,
   bodies |-> bodies]

\* Calls of the function: every range and resolution with few bodies, and
\* two grids with every list of bodies.
AlignCalls ==
  { AlignCall(s, e, r, b) :
      s \in Timestamps, e \in Timestamps, r \in GridResolutions,
      b \in {<<>>, <<Body(TRUE, {"timestamp", "value"}, <<Row(2, "b"), Row(0, "a")>>)>>} }
  \cup { AlignCall(g[1], g[2], g[3], b) :
           g \in {<<1, 3, 3>>, <<0, 4, 2>>}, b \in BodyLists }

\* proxy_export has answered 400 unless start_ts < end_ts.
InitAlign ==
  /\ endpoint = "export"
  /\ req \in {c \in AlignCalls : c.start_ts < c.end_ts}
  /\ pc = "start"
  /\ outbound = <<>>
  /\ response = NoResponse
  /\ Idle

SortsOf(body) == IF Defective(body) THEN {<<>>} ELSE Sorts(body.rows)

\* The call of _align_multi_source_to_df_sync in proxy_export; resolved
\* keeps the sorted tables.
AlignToGrid ==
  /\ pc = "start"
  /\ \E sorted \in [DOMAIN req.bodies -> UNION {SortsOf(req.bodies[i]) : i \in DOMAIN req.bodies}] :
       /\ \A i \in DOMAIN req.bodies : sorted[i] \in SortsOf(req.bodies[i])
       /\ resolved' = sorted
       /\ response' = Frame("text/csv",
            align_to_grid(req.bodies, sorted, req.start_ts, req.end_ts, req.resolution))
  /\ pc' = "done"
  /\ UNCHANGED <<endpoint, platform, req, series, ri, lookup, upstream,
                 outbound, tasks, done>>

NextAlign == AlignToGrid

SpecAlign == InitAlign /\ [][NextAlign]_vars

\* C12: for start_ts < end_ts and every resolution the aligned frame has
\* resolution rows (2 below 2, 10000 above 10000), its first timestamp is
\* start_ts, its last is end_ts and its timestamps are strictly increasing,
\* whatever the bodies hold.
C12_GridSpansRange ==
  pc = "done" =>
    LET ts == response.frame.timestamp
        n  == IF req.resolution < 2 THEN 2
              ELSE IF req.resolution > 10000 THEN 10000 ELSE req.resolution
    IN  /\ Len(ts) = n
        /\ ts[1] = req.start_ts
        /\ ts[n] = req.end_ts
        /\ \A k \in 1..(n-1) : ts[k] < ts[k+1]

\* A table with one row that stands in for a defective body.
Stand == Body(TRUE, {"timestamp", "value"}, <<Row(0, "a")>>)

\* C13: a body that does not decode, has no rows or lacks timestamp or value
\* gives value_i nothing but nulls; the frame keeps the grid's rows, every
\* other column is what it is with a valid body in that place, and the call
\* returns.
C13_DefectiveBodyIsNullColumn ==
  pc = "done" =>
    LET f == response.frame
    IN  \A i \in DOMAIN req.bodies :
          Defective(req.bodies[i]) =>
            /\ response.status = 200
            /\ Len(f.timestamp) = GridClamp(req.resolution)
            /\ DOMAIN f.values = DOMAIN req.bodies
            /\ f.values[i] = [k \in DOMAIN f.timestamp |-> NullCell]
            /\ LET g == align_to_grid([req.bodies EXCEPT ![i] = Stand],
                                      [resolved EXCEPT ![i] = Stand.rows],
                                      req.start_ts, req.end_ts, req.resolution)
               IN  /\ g.timestamp = f.timestamp
                   /\ \A j \in DOMAIN req.bodies : j # i => g.values[j] = f.values[j]

\* C13 witness: the first body does not decode, the second has rows; the
\* first column is nulls, the second is not.
C13_Witness ==
  /\ pc = "done" /\ Len(req.bodies) = 2
  /\ ~req.bodies[1].decodes /\ ~Defective(req.bodies[2])
  /\ response.frame.values[1] = <<NullCell, NullCell, NullCell>>
  /\ response.frame.values[2] = <<"a", "b", "b">>

\* The row that comes last when rows are sorted by timestamp and rows with
\* equal timestamps keep the order they came in, among the rows not after t.
LastUpTo(rows, t) ==
  CHOOSE j \in DOMAIN rows :
    /\ rows[j].timestamp <= t
    /\ \A l \in DOMAIN rows :
         rows[l].timestamp <= t =>
           \/ rows[l].timestamp < rows[j].timestamp
           \/ rows[l].timestamp = rows[j].timestamp /\ l <= j

\* C20: for a valid body and a grid timestamp t, value_i at t is the value of
\* the row with the largest timestamp not after t, null when there is none,
\* and of several rows with that timestamp the last in the stably sorted
\* table.
C20_LocfTakesLastOfStableSort ==
  pc = "done" =>
    LET f == response.frame
    IN  \A i \in DOMAIN req.bodies :
          ~Defective(req.bodies[i]) =>
            \A k \in DOMAIN f.timestamp :
              LET rows == req.bodies[i].rows
                  t == f.timestamp[k]
              IN  f.values[i][k] =
                    IF \A j \in DOMAIN rows : rows[j].timestamp > t THEN NullCell
                    ELSE rows[LastUpTo(rows, t)].value

-----------------------------------------------------------------------------
(* The outer join of align's Route B, row by row: the timestamp column *)

\* How many rows of a table have the timestamp t.
Count(rows, t) == Cardinality({j \in DOMAIN rows : rows[j].timestamp = t})

KeySet == {r.timestamp : r \in BodyRows}

\* base.join(next_renamed, on="timestamp", how="full", coalesce=True), as
\* rows per timestamp: every pair of rows that agree on it, and the rows
\* of either side that have no partner.
RECURSIVE JoinKeys(_, _)
JoinKeys(frames, n) ==
  IF n = 1 THEN [t \in KeySet |-> Count(frames[1].rows, t)]
  ELSE LET base == JoinKeys(frames, n - 1)
       IN  [t \in KeySet |->
              LET a == base[t]
                  b == Count(frames[n].rows, t)
              IN  IF a > 0 /\ b > 0 THEN a * b ELSE a + b]

RECURSIVE Repeat(_, _)
Repeat(t, n) == IF n = 0 THEN <<>> ELSE <<t>> \o Repeat(t, n - 1)

\* base.sort("timestamp"): the timestamp column of the sorted frame.
RECURSIVE Ascending(_, _)
Ascending(c, S) ==
  IF S = {} THEN <<>>
  ELSE LET t == CHOOSE x \in S : \A y \in S : x <= y
       IN  Repeat(t, c[t]) \o Ascending(c, S \ {t})

\* The body stops the merge: it does not decode, or it has rows and lacks
\* timestamp or a value column.
Rejects(b) ==
  \/ ~b.decodes
  \/ Len(b.rows) > 0 /\ ("timestamp" \notin b.columns \/ "value" \notin b.columns)

\* The ValueError _gather_arrow_to_aligned_df raises for the bodies, "" if none.
GatherError(bodies) ==
  IF \E i \in DOMAIN bodies : Rejects(bodies[i])
  THEN LET i == CHOOSE k \in DOMAIN bodies :
                  Rejects(bodies[k]) /\ \A j \in 1..(k-1) : ~Rejects(bodies[j])
       IN  IF ~bodies[i].decodes THEN "Invalid Arrow IPC"
           ELSE IF "timestamp" \notin bodies[i].columns
           THEN "Arrow table must have 'timestamp' column"
           ELSE "Arrow table must have at least one value column"
  ELSE IF \A i \in DOMAIN bodies : Len(bodies[i].rows) = 0
  THEN "No non-empty DataFrames after parsing"
  ELSE ""

\* The tables the join takes in: those with rows.
Accepted(bodies) == SelectSeq(bodies, LAMBDA b : Len(b.rows) > 0)

\* The timestamp column _gather_arrow_to_aligned_df returns.
gather_timestamps(bodies) ==
  LET frames == Accepted(bodies)
  IN  Ascending(JoinKeys(frames, Len(frames)), KeySet)

JoinLists ==
  {<<b>> : b \in Bodies} \cup {<<b, c>> : b \in Bodies, c \in Bodies}

InitJoin ==
  /\ endpoint = "align"
  /\ req \in {[bodies |-> l] : l \in JoinLists}
  /\ pc = "start"
  /\ outbound = <<>>
  /\ response = NoResponse
  /\ Idle

\* proxy_timeseries_align from the merge on.
GatherJoin ==
  /\ pc = "start"
  /\ IF GatherError(req.bodies) # ""
     THEN response' = JsonError(502, GatherError(req.bodies), "")
     ELSE response' = Frame(ARROW_STREAM_TYPE, [timestamp |-> gather_timestamps(req.bodies)])
  /\ pc' = "done"
  /\ UNCHANGED <<endpoint, platform, req, series, resolved, ri, lookup,
                 upstream, outbound, tasks, done>>

NextJoin == GatherJoin

SpecJoin == InitJoin /\ [][NextJoin]_vars

\* C14: the timestamp column of the merged frame holds every timestamp of
\* every accepted body, each exactly once, in ascending order, also when a
\* timestamp is in several bodies or several times in one.
C14_EachTimestampOnce ==
  (pc = "done" /\ response.status = 200) =>
    LET ts == response.frame.timestamp
    IN  /\ Range(ts) = UNION {{r.timestamp : r \in Range(req.bodies[i].rows)} :
                                 i \in DOMAIN req.bodies}
        /\ \A k \in 1..(Len(ts) - 1) : ts[k] < ts[k+1]

-----------------------------------------------------------------------------
(* GET /entities (backend/app/api/entities.py) *)

ENTITY_TYPES_WITH_DATA == <<"AgriParcel", "WeatherObserved", "Device", "AgriSensor">>

\* Longest list of entities the platform returns for a type.
MaxEntities == 2

\* Elements of the platform's list: two entities, and one that is no object.
EntityItems ==
  { [obj |-> TRUE, id |-> "e1"], [obj |-> TRUE, id |-> "x2"], [obj |-> FALSE, id |-> ""] }

\* What the fetch of a type ends with: a transport error, a non-2xx status,
\* a body that is no JSON, JSON that is no list, a list.
TypeAnswers ==
  { [kind |-> k, entities |-> <<>>] : k \in {"error", "status", "badjson", "object"} }
  \cup { [kind |-> "list", entities |-> l] :
           l \in UNION { [1..n -> EntityItems] : n \in 0..MaxEntities } }

\* _fetch_ngsi_entities raises
FetchRaises(ans) == ans.kind \in {"error", "status", "badjson"}

\* _norm_entity(e, etype); it raises for an element that is no object.
norm_entity(e, etype) == [id |-> e.id, type |-> etype]

\* not search, or q in rec["name"].lower() or q in rec["id"].lower()
Matches(q, rec) == q = "" \/ (q = "e1" /\ rec.id = "e1")

\* What the loop over raw has appended to all_entities when it ends or is
\* left by an exception.
Appended(ans, etype, q) ==
  IF FetchRaises(ans) \/ ans.kind = "object" THEN <<>>
  ELSE LET raw == ans.entities
           stop == IF \E k \in DOMAIN raw : ~raw[k].obj
                   THEN CHOOSE k \in DOMAIN raw :
                          ~raw[k].obj /\ \A j \in 1..(k-1) : raw[j].obj
                   ELSE Len(raw) + 1
           recs == [k \in 1..(stop - 1) |-> norm_entity(raw[k], etype)]
       IN  SelectSeq(recs, LAMBDA rec : Matches(q, rec))

\* series holds all_entities, tasks the answers of the fetches so far.
InitEntities ==
  /\ endpoint = "entities"
  /\ platform \in BOOLEAN
  /\ req \in {[search |-> q] : q \in {"", "e1"}}
  /\ pc = "start"
  /\ series = <<>> /\ resolved = <<>> /\ ri = 0
  /\ lookup = NoLookup /\ upstream = NoAnswer /\ tasks = <<>> /\ done = <<>>
  /\ outbound = <<>>
  /\ response = NoResponse

\* get_entities up to the loop over the types.
EntitiesStart ==
  /\ pc = "start"
  /\ IF ~platform
     THEN Respond(Frame("application/json", <<>>)) /\ ri' = ri
     ELSE pc' = "types" /\ ri' = 1 /\ response' = response
  /\ UNCHANGED <<endpoint, platform, req, series, resolved, lookup, upstream,
                 outbound, tasks, done>>

\* One turn of the loop: the fetch of a type, its entities normalized and
\* appended one by one, any exception swallowed.
EntitiesType ==
  /\ pc = "types"
  /\ \E ans \in TypeAnswers :
       /\ tasks' = Append(tasks, ans)
       /\ series' = series \o Appended(ans, ENTITY_TYPES_WITH_DATA[ri], req.search)
  /\ ri' = ri + 1
  /\ pc' = IF ri = Len(ENTITY_TYPES_WITH_DATA) THEN "respond" ELSE "types"
  /\ UNCHANGED <<endpoint, platform, req, resolved, lookup, upstream,
                 outbound, done, response>>

\* return {"entities": all_entities}
EntitiesRespond ==
  /\ pc = "respond"
  /\ Respond(Frame("application/json", series))
  /\ UNCHANGED <<endpoint, platform, req, series, resolved, ri, lookup,
                 upstream, outbound, tasks, done>>

NextEntities ==
  \/ EntitiesStart
  \/ EntitiesType
  \/ EntitiesRespond

SpecEntities == InitEntities /\ [][NextEntities]_vars

\* The handling of the k-th type failed: its fetch, or the normalization of
\* one of its entities.
TypeFailed(k) ==
  FetchRaises(tasks[k]) \/ \E j \in DOMAIN tasks[k].entities : ~tasks[k].entities[j].obj

\* C18: in the answer of GET /entities a type whose handling failed has none
\* of its entities, and every other type has all of its entities that match
\* the search.
C18_FailedTypeSkippedWhole ==
  (pc = "done" /\ platform) =>
    \A k \in DOMAIN tasks :
      LET etype == ENTITY_TYPES_WITH_DATA[k]
          got == SelectSeq(response.frame, LAMBDA rec : rec.type = etype)
      IN  IF TypeFailed(k) THEN got = <<>>
          ELSE got = SelectSeq([j \in DOMAIN tasks[k].entities |->
                                  norm_entity(tasks[k].entities[j], etype)],
                               LAMBDA rec : Matches(req.search, rec))
====
